---- MODULE Spec2Model ----
(***************************************************************************)
(* The cue-list sequencing engine of Linux Show Player's list layout       *)
(* (lisp/plugins/list_layout/layout.py, class ListLayout): the ordered cue *)
(* collection, the standby cursor, go(), the queued "next" completion      *)
(* handler (__cue_next) and the selection.                                 *)
(*                                                                         *)
(* The list model (CueListModel), the list view (CueListView) and          *)
(* CueLayout.standby_cue are not part of the sources at hand; they are     *)
(* modelled from the design document (sections 3, 4.1, 4.2, 4.3).          *)
(***************************************************************************)
EXTENDS Integers, Sequences, FiniteSets, TLC

\* ------------------------------------------------------------------ bounds
\* Number of cue objects that exist (the collection holds at most this many).
MaxCues == 3
\* "next" signals that may wait in the event loop's queue at once.
MaxQueue == 1
\* Largest advance step of go() that is enumerated (the smallest is -1).
MaxAdvance == 2
\* Times the user may press Apply while the settings dialog is open.
MaxApplies == 2

\* ------------------------------------------------------------- vocabulary
\* Cue objects; 0 is Python's None.
NoCue == 0
CueIds == 1..MaxCues
\* The cursor's "nothing there" value (empty collection).
NONE == -1
\* Cue classes: Cue, the default of every cue_type parameter, and two of
\* its subclasses.
CueTypes == {"Cue", "MediaCue", "ActionCue"}
\* The class of each cue object.
cue_class(c) == IF c % 2 = 1 THEN "MediaCue" ELSE "ActionCue"
\* isinstance(cue, cue_type)
isinstance(c, T) == T = "Cue" \/ cue_class(c) = T
\* CueAction kinds handed to Cue.execute: go()'s parameter, default Default.
CueActions == {"Default", "Start"}
Advances == (0 - 1)..MaxAdvance
\* Index arguments against a list of n cues: every position, the one past
\* the end, and one out of range on either side.
Indexes(n) == (0 - 1)..(n + 1)

VARIABLES
    cues,       \* _list_model: the ordered collection, a sequence of cues
    index,      \* cue.index of every cue object (stale once removed)
    cursor,     \* the list view's standby index
    auto,       \* _auto_continue
    selected,   \* the list view's selected items, as the set of their cues
    queue,      \* "next" signals queued for __cue_next (Connection.QtQueued),
                \* each noting whether a cue stood at cue.index + 1 when fired
    last,       \* the entry point that ran last and what it was given
    trace,      \* the Cue.execute calls and cue_executed emissions it made,
                \* in the order it made them
    raised,     \* the exception that escaped it, or "none"
    chain       \* the chain reaction that is followed, if one is: the index
                \* of the cue whose completion started it, then the index of
                \* every cue __cue_next has executed since

vars == <<cues, index, cursor, auto, selected, queue,
          last, trace, raised, chain>>

\* ---------------------------------------------------------------- helpers
Min(a, b) == IF a < b THEN a ELSE b
Max(a, b) == IF a > b THEN a ELSE b
Range(s) == {s[i] : i \in 1..Len(s)}

\* len(self._list_model)
N == Len(cues)

\* Position of cue c in sequence s, 0-based.
PosIn(s, c) == (CHOOSE i \in 1..Len(s) : s[i] = c) - 1

InsertAt(s, c, at) == SubSeq(s, 1, at) \o <<c>> \o SubSeq(s, at + 1, Len(s))

RemoveCue(s, c) == SubSeq(s, 1, PosIn(s, c)) \o SubSeq(s, PosIn(s, c) + 2, Len(s))

\* Cues with a "next" signal still to be handled.
Pending(q) == {q[i].cue : i \in 1..Len(q)}

\* The collection keeps cue.index equal to the position of every cue it
\* holds; a removed cue keeps the index it had for as long as a signal of it
\* is queued (after that nothing refers to the object any more).
Reindex(s, idx, pend) ==
    [c \in CueIds |-> IF c \in Range(s) THEN PosIn(s, c)
                      ELSE IF c \in pend THEN idx[c] ELSE NONE]

\* _list_model.item(i): the cue, or IndexError outside [0, N).
ItemRaises(i) == ~(0 <= i /\ i < N)
Item(i) == IF ItemRaises(i) THEN NoCue ELSE cues[i + 1]

\* The cursor against a collection of n cues: NONE iff n = 0, else within
\* [0, n] (n itself: one past the end, nothing on standby).
ClampCursor(pos, n) == IF n = 0 THEN NONE ELSE Min(Max(pos, 0), n)

\* listView.standbyIndex()
standby_index == cursor

\* CueLayout.standby_cue(): the cue under the cursor, or None.
standby_cue == IF cursor = NONE \/ ItemRaises(cursor) THEN NoCue ELSE Item(cursor)

\* cue.execute(action) and cue_executed.emit(cue), as entries of trace.
Execute(c, a) == <<"execute", c, a>>
Emit(c) == <<"cue_executed", c>>

\* What ran last: its argument (set_standby_index: the index asked for;
\* __cue_next: the finished cue's index; the cue_type or the number of
\* applies where one is given; else 0), the standby index it found and a
\* flag (__cue_next: whether a cue stood at cue.index + 1 when the signal it
\* handled was fired; a removal: whether the removed cue was selected;
\* select_all and invert_selection: see there; else FALSE).
Did(name, a) == [op |-> name, arg |-> a, was |-> cursor, had |-> FALSE]
Ran(name) == last.op = name

\* ------------------------------------------------------------------- Init
Init ==
    /\ cues = <<>>
    /\ index = [c \in CueIds |-> NONE]
    /\ cursor = NONE
    /\ auto \in BOOLEAN
    /\ selected = {}
    /\ queue = <<>>
    /\ last = Did("init", 0)
    /\ trace = <<>>
    /\ raised = "none"
    /\ chain = <<>>

\* ------------------------------------------------- the ordered collection
\* A cue is inserted at position at; the cursor is reconciled in the same
\* step and __cue_added subscribes the cue's "next" signal.
Insert(c, at) ==
    /\ c \notin Range(cues)
    /\ at \in 0..N
    /\ cues' = InsertAt(cues, c, at)
    /\ index' = Reindex(cues', index, Pending(queue))
    /\ cursor' = ClampCursor(cursor, Len(cues'))
    /\ last' = Did("insert", 0)
    /\ trace' = <<>> /\ raised' = "none"
    /\ UNCHANGED <<auto, selected, queue>>

\* A cue is removed; the cursor is clamped and the selection pruned in the
\* same step.
Remove(c) ==
    /\ c \in Range(cues)
    /\ cues' = RemoveCue(cues, c)
    /\ index' = Reindex(cues', index, Pending(queue))
    /\ cursor' = ClampCursor(cursor, Len(cues'))
    /\ selected' = selected \ {c}
    /\ last' = [Did("remove", 0) EXCEPT !.had = c \in selected]
    /\ trace' = <<>> /\ raised' = "none"
    /\ UNCHANGED <<auto, queue>>

\* ------------------------------------------------------------- the cursor
\* listView.setStandbyIndex(i): out-of-range requests are clamped.
setStandbyIndex(i) == ClampCursor(i, N)

\* (variant: the index is stored as given)
SetStandbyIndex_raw(i) ==
    /\ cursor' = i
    /\ last' = Did("set_standby_index", i)
    /\ trace' = <<>> /\ raised' = "none"
    /\ UNCHANGED <<cues, index, auto, selected, queue>>

\* ListLayout.set_standby_index(index)
SetStandbyIndex(i) ==
    /\ cursor' = setStandbyIndex(i)
    /\ last' = Did("set_standby_index", i)
    /\ trace' = <<>> /\ raised' = "none"
    /\ UNCHANGED <<cues, index, auto, selected, queue>>

\* ListLayout._set_auto_next(enable)
SetAutoNext(enable) ==
    /\ auto' = enable
    /\ last' = Did("set_auto_next", 0)
    /\ trace' = <<>> /\ raised' = "none"
    /\ UNCHANGED <<cues, index, cursor, selected, queue>>

\* ListLayout.cue_at(index): a lookup failure reaches the caller.
CueAt(i) ==
    /\ last' = Did("cue_at", 0)
    /\ raised' = IF ItemRaises(i) THEN "IndexError" ELSE "none"
    /\ trace' = <<>>
    /\ UNCHANGED <<cues, index, cursor, auto, selected, queue>>

\* ------------------------------------------------------------------ go()
\* (variant: the test for a standby cue is missing)
go_runs_always(sc) == TRUE

\* `if standby_cue is not None`
go_runs(sc) == sc # NoCue

\* (variant: the new index is stored without going through the list view)
go_cursor_unclamped(enabled, advance) ==
    IF enabled THEN standby_index + advance ELSE cursor

\* (variant: the step is always one)
go_cursor_one(enabled, advance) ==
    IF enabled THEN setStandbyIndex(standby_index + 1) ELSE cursor

\* (variant: the auto-continue flag is not consulted)
go_cursor_always(enabled, advance) == setStandbyIndex(standby_index + advance)

\* `if self._auto_continue: self.set_standby_index(self.standby_index() + advance)`
go_cursor(enabled, advance) ==
    IF enabled THEN setStandbyIndex(standby_index + advance) ELSE cursor

\* (variant: the auto-continue step is not nested in the standby-cue test)
Go_dedent(action, advance) ==
    /\ last' = Did("go", 0)
    /\ raised' = "none"
    /\ trace' = IF go_runs(standby_cue)
                THEN <<Execute(standby_cue, action), Emit(standby_cue)>> ELSE <<>>
    /\ cursor' = go_cursor(auto, advance)
    /\ UNCHANGED <<cues, index, auto, selected, queue>>

\* (variant: the executed cue becomes the selection)
Go_selects(action, advance) ==
    /\ last' = Did("go", 0)
    /\ raised' = "none"
    /\ IF go_runs(standby_cue)
       THEN /\ trace' = <<Execute(standby_cue, action), Emit(standby_cue)>>
            /\ cursor' = go_cursor(auto, advance)
            /\ selected' = {standby_cue}
       ELSE /\ trace' = <<>>
            /\ UNCHANGED <<cursor, selected>>
    /\ UNCHANGED <<cues, index, auto, queue>>

\* ListLayout.go(action, advance)
Go(action, advance) ==
    /\ last' = Did("go", 0)
    /\ raised' = "none"
    /\ IF go_runs(standby_cue)
       THEN /\ trace' = <<Execute(standby_cue, action), Emit(standby_cue)>>
            /\ cursor' = go_cursor(auto, advance)
       ELSE /\ trace' = <<>>
            /\ UNCHANGED cursor
    /\ UNCHANGED <<cues, index, auto, selected, queue>>

\* ------------------------------------------------- the auto-continue chain
\* A cue of the collection finishes, whoever started it: its "next" signal
\* fires and, the connection made by __cue_added being queued, the call of
\* __cue_next is posted to the event loop.
CueEnd(c) ==
    /\ c \in Range(cues)
    /\ Len(queue) < MaxQueue
    /\ queue' = Append(queue, [cue |-> c, had |-> index[c] + 1 < N])
    /\ last' = Did("cue_end", 0)
    /\ trace' = <<>> /\ raised' = "none"
    /\ UNCHANGED <<cues, index, cursor, auto, selected>>

\* (variant: the finished cue itself is taken)
next_index_same(c) == index[c]

\* (variant: one cue is skipped)
next_index_skip(c) == index[c] + 2

\* `next_index = cue.index + 1`
next_index(c) == index[c] + 1

\* `if next_index < len(self._list_model)`
cue_next_runs(ni) == ni < N

\* (variant: the started cue is not compared with the standby cue)
cue_next_cursor_any(ni, next_cue) ==
    IF auto THEN setStandbyIndex(ni + 1) ELSE cursor

\* (variant: the cursor is put on the started cue, not past it)
cue_next_cursor_on(ni, next_cue) ==
    IF auto /\ next_cue = standby_cue THEN setStandbyIndex(ni) ELSE cursor

\* `if self._auto_continue and next_cue is self.standby_cue():
\*      self.set_standby_index(next_index + 1)`
cue_next_cursor(ni, next_cue) ==
    IF auto /\ next_cue = standby_cue THEN setStandbyIndex(ni + 1) ELSE cursor

\* `except(IndexError, KeyError): pass`
cue_next_catches(exc) == exc \in {"IndexError", "KeyError"}

\* ListLayout.__cue_next(cue), run by the event loop for the oldest queued
\* signal. `next_cue.cue.execute()` is taken to start next_cue.
CueNext ==
    /\ queue # <<>>
    /\ queue' = Tail(queue)
    /\ last' = [Did("cue_next", index[Head(queue).cue]) EXCEPT !.had = Head(queue).had]
    /\ LET ni == next_index(Head(queue).cue)
       IN  IF ~cue_next_runs(ni)
           THEN trace' = <<>> /\ raised' = "none" /\ UNCHANGED cursor
           ELSE IF ItemRaises(ni)
           THEN /\ trace' = <<>>
                /\ raised' = IF cue_next_catches("IndexError") THEN "none" ELSE "IndexError"
                /\ UNCHANGED cursor
           ELSE /\ trace' = <<Execute(Item(ni), "Default")>>
                /\ raised' = "none"
                /\ cursor' = cue_next_cursor(ni, Item(ni))
    /\ index' = Reindex(cues, index, Pending(queue'))
    /\ UNCHANGED <<cues, auto, selected>>

\* -------------------------------------------------------------- selection
\* The user toggles one item of the list view.
ToggleSelected(c) ==
    /\ c \in Range(cues)
    /\ selected' = IF c \in selected THEN selected \ {c} ELSE selected \cup {c}
    /\ last' = Did("toggle", 0)
    /\ trace' = <<>> /\ raised' = "none"
    /\ UNCHANGED <<cues, index, cursor, auto, queue>>

\* range(self._view.listView.topLevelItemCount()): the rows the loops visit.
Rows == 0..(N - 1)

\* (variant: the class test of select_all is missing)
select_all_matches_any(i, cue_type) == TRUE

\* (variant: the class test of select_all never passes)
select_all_matches_none(i, cue_type) == FALSE

\* select_all: `if isinstance(self._list_model.item(index), cue_type)`
select_all_matches(i, cue_type) == isinstance(Item(i), cue_type)

\* deselect_all: `if isinstance(self._list_model.item(index), cue_type)`
deselect_all_matches(i, cue_type) == isinstance(Item(i), cue_type)

\* The selection after select_all(cue_type): setSelected(True) on every row
\* that passes the test.
select_all(cue_type) ==
    selected \cup {Item(i) : i \in {j \in Rows : select_all_matches(j, cue_type)}}

\* The selection after deselect_all(cue_type): setSelected(False) on every
\* row that passes the test.
deselect_all(cue_type) ==
    selected \ {Item(i) : i \in {j \in Rows : deselect_all_matches(j, cue_type)}}

\* (variant: every row ends selected)
invert_flips_set(i) == TRUE

\* `item.setSelected(not item.isSelected())`: whether row i ends selected.
invert_flips(i) == ~(Item(i) \in selected)

\* (variant: the flip runs over every cue object, listed or not)
invert_selection_known == CueIds \ selected

\* The selection after invert_selection().
invert_selection == {Item(i) : i \in {j \in Rows : invert_flips(j)}}

\* ListLayout.select_all(cue_type). The flag notes that the call came right
\* after deselect_all() and, like it, with the default cue_type.
SelectAll(cue_type) ==
    /\ selected' = select_all(cue_type)
    /\ last' = [Did("select_all", cue_type) EXCEPT
                    !.had = /\ cue_type = "Cue"
                            /\ Ran("deselect_all") /\ last.arg = "Cue"]
    /\ trace' = <<>> /\ raised' = "none"
    /\ UNCHANGED <<cues, index, cursor, auto, queue>>

\* ListLayout.deselect_all(cue_type)
DeselectAll(cue_type) ==
    /\ selected' = deselect_all(cue_type)
    /\ last' = Did("deselect_all", cue_type)
    /\ trace' = <<>> /\ raised' = "none"
    /\ UNCHANGED <<cues, index, cursor, auto, queue>>

\* ListLayout.invert_selection(). The flag notes that the call came right
\* after deselect_all(); select_all().
InvertSelection ==
    /\ selected' = invert_selection
    /\ last' = [Did("invert_selection", 0) EXCEPT
                    !.had = Ran("select_all") /\ last.had]
    /\ trace' = <<>> /\ raised' = "none"
    /\ UNCHANGED <<cues, index, cursor, auto, queue>>

\* ---------------------------------------------------------------- queries
\* A cue handed out by a generator, and an action handed to
\* MainActionsHandler().do_action, as entries of trace.
Yield(c) == <<"yield", c>>
DoAction(cs) == <<"do_action", cs>>

\* listView.selectedItems(): the selected rows, top to bottom.
selectedItems == SelectSeq([i \in 1..N |-> i - 1], LAMBDA i : Item(i) \in selected)

\* The cues selected_cues(cue_type) yields:
\* `for item in selectedItems(): yield _list_model.item(indexOfTopLevelItem(item))`
selected_cues(cue_type) ==
    [k \in 1..Len(selectedItems) |-> Item(selectedItems[k])]

\* ListLayout.selected_cues(cue_type), iterated to its end.
SelectedCues(cue_type) ==
    /\ trace' = [k \in 1..Len(selected_cues(cue_type)) |->
                    Yield(selected_cues(cue_type)[k])]
    /\ last' = Did("selected_cues", cue_type)
    /\ raised' = "none"
    /\ UNCHANGED <<cues, index, cursor, auto, selected, queue>>

\* The cues cues(cue_type) yields: `yield from self._list_model`
cues_from(cue_type) == cues

\* ListLayout.cues(cue_type), iterated to its end.
Cues(cue_type) ==
    /\ trace' = [k \in 1..Len(cues_from(cue_type)) |-> Yield(cues_from(cue_type)[k])]
    /\ last' = Did("cues", cue_type)
    /\ raised' = "none"
    /\ UNCHANGED <<cues, index, cursor, auto, selected, queue>>

\* CueLayout.get_selected_cues(), as a layout implements it: the selected
\* cues in list order.
get_selected_cues == selected_cues("Cue")

\* `if cues:`
edit_opens(cs) == cs # <<>>

\* (variant: one ConfigureAction per cue)
on_apply_each(cs) == [k \in 1..Len(cs) |-> DoAction(<<cs[k]>>)]

\* on_apply(settings): `action = MultiConfigureAction(settings, cues)`,
\* `MainActionsHandler().do_action(action)`
on_apply(cs) == <<DoAction(cs)>>

\* What the dialog submits while it is open (edit_ui.exec_()), the user
\* pressing Apply k times.
RECURSIVE exec_(_, _)
exec_(cs, k) == IF k = 0 THEN <<>> ELSE on_apply(cs) \o exec_(cs, k - 1)

\* CueLayout.edit_selected_cues()
EditSelectedCues(applies) ==
    /\ trace' = IF edit_opens(get_selected_cues)
                THEN exec_(get_selected_cues, applies) ELSE <<>>
    /\ last' = Did("edit_selected_cues", applies)
    /\ raised' = "none"
    /\ UNCHANGED <<cues, index, cursor, auto, selected, queue>>

\* ------------------------------------------------------------------- Next
Next ==
    \/ \E c \in CueIds, at \in 0..MaxCues : Insert(c, at) /\ UNCHANGED chain
    \/ \E c \in CueIds : Remove(c) /\ UNCHANGED chain
    \/ \E i \in Indexes(N) : SetStandbyIndex(i) /\ UNCHANGED chain
    \/ \E b \in BOOLEAN : SetAutoNext(b) /\ UNCHANGED chain
    \/ \E i \in Indexes(N) : CueAt(i) /\ UNCHANGED chain
    \/ \E a \in CueActions, k \in Advances : Go(a, k) /\ UNCHANGED chain
    \/ \E c \in CueIds : CueEnd(c) /\ UNCHANGED chain
    \/ CueNext /\ UNCHANGED chain

Spec == Init /\ [][Next]_vars

\* The selection together with the collection and the cursor; no "next"
\* signal fires here.
NextSel ==
    \/ \E c \in CueIds, at \in 0..MaxCues : Insert(c, at) /\ UNCHANGED chain
    \/ \E c \in CueIds : Remove(c) /\ UNCHANGED chain
    \/ \E i \in Indexes(N) : SetStandbyIndex(i) /\ UNCHANGED chain
    \/ \E b \in BOOLEAN : SetAutoNext(b) /\ UNCHANGED chain
    \/ \E a \in CueActions, k \in Advances : Go(a, k) /\ UNCHANGED chain
    \/ \E c \in CueIds : ToggleSelected(c) /\ UNCHANGED chain
    \/ \E t \in CueTypes : SelectAll(t) /\ UNCHANGED chain
    \/ \E t \in CueTypes : DeselectAll(t) /\ UNCHANGED chain
    \/ InvertSelection /\ UNCHANGED chain

SpecSel == Init /\ [][NextSel]_vars

\* The collection and the selection as the generators and the bulk edit read
\* them.
NextView ==
    \/ \E c \in CueIds, at \in 0..MaxCues : Insert(c, at) /\ UNCHANGED chain
    \/ \E c \in CueIds : Remove(c) /\ UNCHANGED chain
    \/ \E c \in CueIds : ToggleSelected(c) /\ UNCHANGED chain
    \/ \E t \in CueTypes : SelectedCues(t) /\ UNCHANGED chain
    \/ \E t \in CueTypes : Cues(t) /\ UNCHANGED chain
    \/ \E k \in 0..MaxApplies : EditSelectedCues(k) /\ UNCHANGED chain

SpecView == Init /\ [][NextView]_vars

\* ------------------------------------------------------ one chain reaction
\* A collection is built and the cursor placed; then one cue finishes and
\* the chain reaction it starts is followed with nothing else going on: the
\* collection is not edited, every cue __cue_next executes finishes once and
\* posts its "next" signal, and the event loop runs __cue_next for it.
ChainStarted == chain # <<>>

\* The cue __cue_next has just executed.
JustExecuted(c) == Ran("cue_next") /\ trace = <<Execute(c, "Default")>>

ChainStart(c) ==
    /\ ~ChainStarted
    /\ CueEnd(c)
    /\ chain' = <<index[c]>>

ChainNext ==
    /\ ChainStarted
    /\ CueNext
    /\ chain' = IF trace' = <<>> THEN chain
                ELSE Append(chain, PosIn(cues, trace'[1][2]))

ChainEnd(c) ==
    /\ ChainStarted
    /\ JustExecuted(c)
    /\ CueEnd(c)
    /\ UNCHANGED chain

NextChain ==
    \/ \E c \in CueIds, at \in 0..MaxCues :
           ~ChainStarted /\ Insert(c, at) /\ UNCHANGED chain
    \/ \E i \in Indexes(N) :
           ~ChainStarted /\ SetStandbyIndex(i) /\ UNCHANGED chain
    \/ \E c \in CueIds : ChainStart(c)
    \/ ChainNext
    \/ \E c \in CueIds : ChainEnd(c)

\* The event loop delivers a queued signal (Connection.QtQueued); a cue that
\* was executed finishes.
SpecChain ==
    /\ Init /\ [][NextChain]_vars
    /\ WF_vars(ChainNext)
    /\ WF_vars(\E c \in CueIds : ChainEnd(c))

\* ================================================================= claims
\* What the entry point that ran last did, read off trace.
ExecutedOnly(c) ==
    Len(trace) = 1 /\ trace[1][1] = "execute" /\ trace[1][2] = c
ExecutedAndEmitted(c) ==
    /\ Len(trace) = 2
    /\ trace[1][1] = "execute" /\ trace[1][2] = c
    /\ trace[2] = Emit(c)
\* pos + step brought into [0, n], for n >= 1.
Clamped(pos, n) == IF pos < 0 THEN 0 ELSE IF pos > n THEN n ELSE pos

\* C1: after every step (insert, remove, go, set_standby_index, handling of a
\* completion signal, ...) the cursor is NONE exactly when the collection is
\* empty and otherwise lies in 0..N; a removal that found the cursor above
\* the new length leaves it at the new length.
C1_CursorInRange ==
    /\ (cursor = NONE) <=> (N = 0)
    /\ N > 0 => cursor \in 0..N
    /\ (Ran("remove") /\ N > 0 /\ last.was > N) => cursor = N

C1_Witness == Ran("remove") /\ N > 0 /\ last.was > N /\ cursor = N

\* C2: go() with an empty collection or with the cursor NONE executes
\* nothing, emits nothing and leaves the cursor where it was, for every
\* auto-continue setting and advance step.
C2_GoWithoutStandby ==
    (Ran("go") /\ (N = 0 \/ last.was = NONE)) => (trace = <<>> /\ cursor = last.was)

C2_Witness == Ran("go") /\ N = 0 /\ auto /\ trace = <<>> /\ cursor = NONE

\* C3: with auto-continue on and the cursor c on a cue (c < N), go(action, k)
\* executes the cue at c once with that action, then emits cue_executed once
\* with the same cue, and puts the cursor at c + k brought into [0, N].
C3_GoAdvances ==
    [][\A a \in CueActions, k \in Advances :
        (Go(a, k) /\ auto /\ cursor \in 0..(N - 1)) =>
            /\ trace' = <<Execute(cues[cursor + 1], a), Emit(cues[cursor + 1])>>
            /\ cursor' = Clamped(cursor + k, N)
            /\ (k >= 0 => cursor' = Min(cursor + k, N))]_vars

C3_Witness ==
    /\ Ran("go") /\ auto /\ N = 3 /\ last.was = 0 /\ cursor = 1
    /\ trace = <<Execute(cues[1], "Default"), Emit(cues[1])>>

\* C4: with auto-continue off and the cursor c on a cue, go() executes that
\* cue, emits cue_executed for it and leaves the cursor at c, whatever the
\* advance step.
C4_GoStays ==
    (Ran("go") /\ ~auto /\ last.was \in 0..(N - 1)) =>
        (ExecutedAndEmitted(cues[last.was + 1]) /\ cursor = last.was)

C4_Witness ==
    /\ Ran("go") /\ ~auto /\ N = 3 /\ last.was = 0 /\ cursor = 0
    /\ ExecutedAndEmitted(cues[1])

\* C5 as stated: in a collection of three cues with auto-continue on and the
\* cursor at 1, handling the completion of the cue at index 1 executes the
\* cue at index 2 and moves the cursor to 3.
C5_AsStated ==
    (Ran("cue_next") /\ N = 3 /\ auto /\ last.was = 1 /\ last.arg = 1) =>
        (ExecutedOnly(cues[3]) /\ cursor = 3)

\* C5, amended: in that scenario the cue at index 2 is executed and the
\* cursor stays at 1, the started cue not being the standby cue; the cursor
\* moves to 3 when it was at 2, on the started cue.
C5_ChainScenario ==
    /\ (Ran("cue_next") /\ N = 3 /\ auto /\ last.was = 1 /\ last.arg = 1) =>
           (ExecutedOnly(cues[3]) /\ cursor = 1)
    /\ (Ran("cue_next") /\ N = 3 /\ auto /\ last.was = 2 /\ last.arg = 1) =>
           (ExecutedOnly(cues[3]) /\ cursor = 3)

C5_Witness ==
    /\ Ran("cue_next") /\ N = 3 /\ auto /\ last.was = 1 /\ last.arg = 1
    /\ ExecutedOnly(cues[3]) /\ cursor = 1

\* C6: handling the completion of the cue whose index is i executes the cue
\* at index i + 1 once, and nothing else, when i + 1 < N, whatever the cursor
\* and the auto-continue setting; it executes nothing when i + 1 >= N.
C6_NextCueExecuted ==
    Ran("cue_next") =>
        IF last.arg + 1 < N
        THEN trace = <<Execute(cues[last.arg + 2], "Default")>>
        ELSE trace = <<>>

C6_Witness ==
    /\ Ran("cue_next") /\ ~auto /\ last.arg + 1 < N /\ last.was # last.arg + 1
    /\ ExecutedOnly(cues[last.arg + 2])

\* C7: the handler moves the cursor to i + 2 when auto-continue is on and the
\* cue it started (index i + 1) is the standby cue, and leaves the cursor
\* alone otherwise.
C7_ChainCursor ==
    Ran("cue_next") =>
        cursor = IF auto /\ last.arg + 1 < N /\ last.was = last.arg + 1
                 THEN last.arg + 2
                 ELSE last.was

C7_Witness ==
    /\ Ran("cue_next") /\ auto /\ last.arg + 1 < N /\ last.was = last.arg + 1
    /\ cursor = last.arg + 2 /\ cursor <= N

C9_GoPastEnd ==
    /\ (Ran("go") /\ N > 0 /\ last.was = N) => (trace = <<>> /\ cursor = N)
    /\ (N > 0 /\ last.was = N /\ ~Ran("set_standby_index")
            /\ ~Ran("insert") /\ ~Ran("remove")) => cursor = N
    /\ (Ran("go") /\ last.was \in 0..(N - 1)) => ExecutedAndEmitted(cues[last.was + 1])

C9_Witness == Ran("go") /\ N > 0 /\ last.was = N /\ auto /\ trace = <<>> /\ cursor = N

\* C10: set_standby_index(i) raises nothing for any i; the cursor ends in
\* [0, N] (N when i > N, 0 when i < 0, i otherwise; NONE in an empty
\* collection), and the collection and the selection are as they were.
C10_SetClamps ==
    [][\A i \in Indexes(N) :
        SetStandbyIndex(i) =>
            /\ raised' = "none"
            /\ cues' = cues /\ selected' = selected
            /\ (N = 0 => cursor' = NONE)
            /\ (N > 0 => cursor' = Clamped(i, N))]_vars

C10_Witness ==
    /\ Ran("set_standby_index") /\ last.arg > N /\ N > 0 /\ cursor = N
    /\ selected # {} /\ raised = "none"

\* C11: select_all(T) and deselect_all(T) touch only the cues whose class
\* matches T: after select_all(T) every cue of the collection that is a T is
\* selected and every other cue is selected exactly if it was before; after
\* deselect_all(T) no T is selected and every other cue is as before.
C11_TypeScoped ==
    [][\A t \in CueTypes :
        /\ SelectAll(t) =>
               \A c \in Range(cues) :
                   IF t = "Cue" \/ cue_class(c) = t
                   THEN c \in selected'
                   ELSE (c \in selected') <=> (c \in selected)
        /\ DeselectAll(t) =>
               \A c \in Range(cues) :
                   IF t = "Cue" \/ cue_class(c) = t
                   THEN c \notin selected'
                   ELSE (c \in selected') <=> (c \in selected)]_vars

\* select_all(MediaCue) has run on a list that holds an ActionCue, which is
\* still not selected, next to the MediaCues, which are.
C11_Witness ==
    /\ Ran("select_all") /\ last.arg = "MediaCue" /\ N = 3
    /\ selected = {c \in Range(cues) : cue_class(c) = "MediaCue"}
    /\ selected # {} /\ selected # Range(cues)

\* C12: invert_selection() leaves selected exactly the cues of the
\* collection that were not selected, whatever their class; with the list
\* [A, B, C] and A selected, B and C end selected and A does not.
C12_InvertIsComplement ==
    [][InvertSelection =>
        /\ selected' = Range(cues) \ selected
        /\ (N = 3 /\ selected = {cues[1]}) => selected' = {cues[2], cues[3]}]_vars

C12_Witness ==
    /\ Ran("invert_selection") /\ N = 3
    /\ selected = {cues[2], cues[3]}
    /\ cue_class(cues[2]) # cue_class(cues[3])

\* C13: on a non-empty collection deselect_all(); select_all();
\* invert_selection(), called one after the other with the default
\* cue_type, leave nothing selected, whatever was selected before.
C13_RoundTrip ==
    (Ran("invert_selection") /\ last.had /\ N > 0) => selected = {}

C13_Witness ==
    Ran("invert_selection") /\ last.had /\ N = 3 /\ selected = {}

\* The cues of the collection that are in set S and instances of class t, in
\* collection order, as yielded.
YieldsOf(S, t) ==
    LET keep == SelectSeq(cues, LAMBDA c : c \in S /\ (t = "Cue" \/ cue_class(c) = t))
    IN  [k \in 1..Len(keep) |-> Yield(keep[k])]

\* C14: selected_cues(T) yields exactly the cues that are selected and are
\* instances of T, in collection order.
C14_SelectedFiltered ==
    Ran("selected_cues") => trace = YieldsOf(selected, last.arg)

\* C15: cues(T) yields, in collection order, exactly the cues of the
\* collection that are instances of T and skips the others.
C15_CuesFiltered ==
    Ran("cues") => trace = YieldsOf(Range(cues), last.arg)

\* C16: in every reachable state every selected cue is in the collection;
\* in particular a selected cue that is removed leaves the selection.
C16_SelectionInCollection == selected \subseteq Range(cues)

\* A selected cue has just been removed and others are still selected.
C16_Witness ==
    Ran("remove") /\ last.had /\ selected # {} /\ selected \subseteq Range(cues)

\* C17: edit_selected_cues() raises nothing; with nothing selected it
\* submits no action, however often Apply would be pressed; with a selection
\* it submits one action for each Apply, and that action covers all the
\* selected cues, in list order.
C17_BulkEdit ==
    Ran("edit_selected_cues") =>
        /\ raised = "none"
        /\ selected = {} => trace = <<>>
        /\ selected # {} =>
               /\ Len(trace) = last.arg
               /\ \A k \in 1..Len(trace) :
                      /\ trace[k][1] = "do_action"
                      /\ trace[k][2] = SelectSeq(cues, LAMBDA c : c \in selected)

\* Two cues are selected and Apply was pressed twice.
C17_Witness ==
    /\ Ran("edit_selected_cues") /\ last.arg = 2
    /\ Cardinality(selected) = 2 /\ Len(trace) = 2

\* C18: go() changes neither the collection nor the selection, whatever
\* the action, the advance step, the cursor and the auto-continue setting.
C18_GoFrame ==
    [][\A a \in CueActions, k \in Advances :
        Go(a, k) => (cues' = cues /\ selected' = selected)]_vars

\* go() has executed a cue and moved the cursor next to a selection that
\* does not hold the executed cue.
C18_Witness ==
    /\ Ran("go") /\ trace # <<>> /\ cursor # last.was
    /\ selected # {} /\ trace[1][2] \notin selected

\* The chain is over: the last signal has been handled, nothing was executed
\* for it and none is queued.
ChainOver ==
    ChainStarted /\ queue = <<>> /\ Ran("cue_next") /\ trace = <<>>

\* C20: with the collection left alone, every executed cue finishing once
\* and the signals handled one at a time, the chain started by the
\* completion of the cue at index i executes the cues at i + 1, i + 2, ...
\* in this order, none of them twice and none past N - 1, at most one signal
\* waits at any time, and the chain comes to an end with the queue empty,
\* having executed every cue up to N - 1.
C20_ChainRuns ==
    /\ [](ChainStarted =>
            /\ \A k \in 1..Len(chain) : chain[k] = chain[1] + (k - 1)
            /\ chain[Len(chain)] <= N - 1
            /\ Len(queue) <= 1)
    /\ ChainStarted ~> (ChainOver /\ chain[Len(chain)] = N - 1)

\* The completion of the first of three cues has taken the chain through
\* the second and the third, and it is over.
C20_Witness ==
    ChainOver /\ N = 3 /\ chain = <<0, 1, 2>>

====
